---- MODULE Spec2Model ----
(***************************************************************************)
(* Model of the Testdroid cloud client (src/src/lib/testdroid.js).         *)
(*                                                                         *)
(* One client object is shared by the callers of Callers.  JavaScript runs *)
(* each async function to its next real suspension (a network request or   *)
(* the sleep timer) without interruption, so an action of this model is    *)
(* the code that runs between two such suspensions:                        *)
(*   Start         the call of an operation, down to the first request     *)
(*   TokenResponse the answer to the oauth/token request, down to the API  *)
(*                 request of __request                                    *)
(*   ApiResponse   the answer to the API request, up to the operation's    *)
(*                 return, throw or sleep                                  *)
(*   Wake          the end of getProxy's sleep: the next loop iteration    *)
(*   Tick          the wall clock (Date.now()) advancing                   *)
(* Times are milliseconds, as in the code.                                 *)
(***************************************************************************)
EXTENDS Integers, Sequences, FiniteSets, TLC

\* ---------------------------------------------------------------- bounds
\* Highest clock value of the two-caller specification.
MaxNow == 120000
\* Highest clock value of the getProxy specification (30 sleeps need 150000).
MaxNowProxy == 160000

\* ------------------------------------------------------ program constants
\* getToken: "only refresh if within 1 minute" (Date.now()+60000).
RefreshWindow == 60000
\* getProxy: await sleep(5000).
SleepDuration == 5000
\* getProxy: let maxRetries = 30.
maxRetries == 30
\* getToken: res.body.expires_in * 1000.
MsPerSecond == 1000

\* ----------------------------------------------------------- input sets
Callers == {"c1", "c2"}
\* The operations of the client a caller may invoke (getProxy is driven by
\* the specification SpecProxy).
SimpleOps == {"get", "del", "post", "startDeviceSession", "stopDeviceSession"}
\* this.token / this.refreshToken before the first successful getToken.
Undefined == "undefined"
AccessTokens == {"a1", "a2"}
RefreshTokens == {"r1", "r2"}
\* Lifetimes (seconds) the server may report in expires_in.
ExpiresIn == {0, 60, 90}
ServerErrors == {"e1", "e2"}
\* Response bodies of the API: result lists.
Bodies == {<< >>, <<"p1">>, <<"p2", "p1">>}

\* A response of oauth/token.
TokenResponses ==
    {[ok |-> TRUE, access_token |-> a, refresh_token |-> r, expires_in |-> e,
      error_description |-> ""] :
        a \in AccessTokens, r \in RefreshTokens, e \in ExpiresIn}
    \cup
    {[ok |-> FALSE, access_token |-> Undefined, refresh_token |-> Undefined,
      expires_in |-> 0, error_description |-> d] : d \in ServerErrors}

\* The token responses of the getProxy specification: one token pair, so that
\* the thirty iterations stay within reach.
ProxyTokenResponses ==
    {r \in TokenResponses :
        /\ r.ok => r.access_token = "a1" /\ r.refresh_token = "r1"
        /\ ~r.ok => r.error_description = "e1"}

\* A response of an API endpoint (superagent: res.ok, res.body, res.error).
ApiResponses ==
    {[ok |-> TRUE, body |-> b, error |-> ""] : b \in Bodies}
    \cup
    {[ok |-> FALSE, body |-> << >>, error |-> m] : m \in ServerErrors}

NoRes == [ok |-> FALSE, body |-> << >>, error |-> ""]
NoReq == [grant_type |-> "none", refresh_token |-> Undefined]
\* No non-success response so far; otherwise from is "token" or "api" and
\* text the error text the server sent.
NoFailure == [from |-> "", text |-> ""]
NoOutcome ==
    [kind |-> "none", error |-> "", site |-> "", message |-> "",
     shape |-> "", res |-> NoRes, item |-> ""]

\* An operation returning: shape says what of the response is returned
\* ("res": the response, "body": res.body, "first": res.body[0]).
Returned(shape, res, item) ==
    [kind |-> "return", error |-> "", site |-> "", message |-> "",
     shape |-> shape, res |-> res, item |-> item]

\* An operation throwing new Error(...): error names the kind of failure the
\* throw site stands for, site the function that throws, message the server's
\* text the Error's message carries.
Thrown(error, site, message) ==
    [kind |-> "throw", error |-> error, site |-> site, message |-> message,
     shape |-> "", res |-> NoRes, item |-> ""]

VARIABLES
    token,            \* this.token
    refreshToken,     \* this.refreshToken
    tokenExpiration,  \* this.tokenExpiration (never read while token is unset)
    now,              \* Date.now()
    pc,               \* where each caller is suspended
    op,               \* the operation each caller runs
    i,                \* getProxy's loop counter
    res,              \* getProxy's res: the last API response it got
    tokenReq,         \* payload of the caller's outstanding oauth/token request
    bearer,           \* token in the Authorization header of its API request
    wakeAt,           \* when the caller's sleep timer fires
    sleptAt,          \* when the caller's sleep began
    outcome,          \* what the caller's last operation returned or threw
    sent,             \* API requests the current operation has issued
    tokenSent,        \* oauth/token requests the current operation has issued
    sleeps,           \* sleeps the current operation has completed
    failure,          \* the non-success response the current operation received
    stamp             \* the last successful token response, as getToken saw it

vars == <<token, refreshToken, tokenExpiration, now, pc, op, i, res, tokenReq,
          bearer, wakeAt, sleptAt, outcome, sent, tokenSent, sleeps, failure, stamp>>

cache == <<token, refreshToken, tokenExpiration>>

Init ==
    /\ token = Undefined
    /\ refreshToken = Undefined
    /\ tokenExpiration = 0
    /\ now = 0
    /\ pc = [c \in Callers |-> "idle"]
    /\ op = [c \in Callers |-> "none"]
    /\ i = [c \in Callers |-> 0]
    /\ res = [c \in Callers |-> NoRes]
    /\ tokenReq = [c \in Callers |-> NoReq]
    /\ bearer = [c \in Callers |-> Undefined]
    /\ wakeAt = [c \in Callers |-> 0]
    /\ sleptAt = [c \in Callers |-> 0]
    /\ outcome = [c \in Callers |-> NoOutcome]
    /\ sent = [c \in Callers |-> 0]
    /\ tokenSent = [c \in Callers |-> 0]
    /\ sleeps = [c \in Callers |-> 0]
    /\ failure = [c \in Callers |-> NoFailure]
    /\ stamp = <<Undefined, Undefined, 0>>

\* ------------------------------------------------------------- getToken
\* !this.token is false
Held(tok) == tok # Undefined

\* Mutant: a held, unexpired token is always refreshed, never reused.
getTokenGrant_AlwaysRefresh(tok, exp, t) ==
    IF ~Held(tok) \/ t > exp THEN "password" ELSE "refresh_token"

\* Mutant: expiry is not looked at; a held token is refreshed once it is
\* within the window or past it.
getTokenGrant_NoExpiryCheck(tok, exp, t) ==
    IF ~Held(tok)
    THEN "password"
    ELSE IF exp > t + RefreshWindow THEN "none" ELSE "refresh_token"

\* Mutant: the window's boundary is taken as still valid.
getTokenGrant_WindowOffByOne(tok, exp, t) ==
    IF ~Held(tok) \/ t > exp
    THEN "password"
    ELSE IF exp >= t + RefreshWindow THEN "none" ELSE "refresh_token"

\* Mutant: single flight; no token request goes out while another caller's
\* is outstanding.
getTokenGrant_SingleFlight(tok, exp, t) ==
    IF \E d \in Callers : pc[d] = "tokenWait"
    THEN "none"
    ELSE IF ~Held(tok) \/ t > exp
         THEN "password"
         ELSE IF exp > t + RefreshWindow THEN "none" ELSE "refresh_token"

\* getToken's choice (lines 355-375): which request, if any, it sends for the
\* cached token tok, its expiration exp and the time t of the call.
getTokenGrant(tok, exp, t) ==
    IF ~Held(tok) \/ t > exp
    THEN "password"
    ELSE IF exp > t + RefreshWindow
         THEN "none"
         ELSE "refresh_token"

\* The payload of the oauth/token request (client_id, username and password
\* never change and are left out).
getTokenPayload(grant, rt) ==
    IF grant = "password"
    THEN [grant_type |-> "password", refresh_token |-> Undefined]
    ELSE [grant_type |-> "refresh_token", refresh_token |-> rt]

\* Mutant: the refresh token of the response is not stored.
getTokenStore_KeepsRefreshToken(r, t) ==
    <<r.access_token, refreshToken, t + r.expires_in * MsPerSecond>>

\* getToken's three assignments on a successful response r at time t
\* (lines 394-396): <<this.token, this.refreshToken, this.tokenExpiration>>.
getTokenStore(r, t) ==
    <<r.access_token, r.refresh_token, t + r.expires_in * MsPerSecond>>

\* Mutant: the Error does not carry the server's error_description.
getTokenFailure_NoDescription(r) == Thrown("AuthError", "getToken", "")

\* getToken on a non-success response (lines 388-392).
getTokenFailure(r) == Thrown("AuthError", "getToken", r.error_description)

\* --------------------------------------------------------- verb wrappers
\* Mutant: get hands every response back, as post does.
get_NoCheck(r) == Returned("res", r, "")

\* get (lines 141-151).
get(r) ==
    IF ~r.ok THEN Thrown("RequestError", "get", r.error)
    ELSE Returned("res", r, "")

\* Mutant: del hands every response back, as post does.
del_NoCheck(r) == Returned("res", r, "")

\* del (lines 114-124).
del(r) ==
    IF ~r.ok THEN Thrown("RequestError", "del", r.error)
    ELSE Returned("res", r, "")

\* post (lines 408-416): no look at res.ok.
post(r) == Returned("res", r, "")

\* --------------------------------------------------- resource operations
startDeviceSession(r) ==
    LET w == post(r) IN
    IF w.kind = "throw" THEN w
    ELSE IF ~w.res.ok
         THEN Thrown("RequestError", "startDeviceSession", w.res.error)
         ELSE Returned("body", w.res, "")

\* Mutant: stopDeviceSession does not look at res.ok.
stopDeviceSession_NoCheck(r) == Returned("res", post(r).res, "")

stopDeviceSession(r) ==
    LET w == post(r) IN
    IF w.kind = "throw" THEN w
    ELSE IF ~w.res.ok
         THEN Thrown("RequestError", "stopDeviceSession", w.res.error)
         ELSE Returned("res", w.res, "")

\* What operation o makes of the API response r.
Finish(o, r) ==
    CASE o = "get" -> get(r)
      [] o = "del" -> del(r)
      [] o = "post" -> post(r)
      [] o = "startDeviceSession" -> startDeviceSession(r)
      [] o = "stopDeviceSession" -> stopDeviceSession(r)

\* Mutant: the loop gives up one iteration early.
getProxyLoop_StopsEarly(k) == k < maxRetries

\* getProxy, line 328: the loop's condition for iteration k.
getProxyLoop(k) == k <= maxRetries

\* getProxy, line 332: the break.
getProxyBreak(r) == r.ok /\ Len(r.body) > 0

\* getProxy, lines 337-343: after the loop, with res = r.
getProxyResult(r) ==
    IF ~r.ok \/ Len(r.body) = 0
    THEN Thrown("ProxyTimeoutError", "getProxy", "")
    ELSE Returned("first", r, r.body[1])

\* sleep(5000) called at time t (lines 10-14, 334): when the timer fires.
sleep(t) == t + SleepDuration

\* ----------------------------------------------------------------- steps
\* __request (lines 70-86) up to its first suspension, for caller c whose
\* operation has so far issued s API requests and ts token requests:
\* buildHeaders awaits getToken, which either returns the cached token at
\* once, and the API request goes out, or sends a request to oauth/token.
BeginRequest(c, s, ts) ==
    LET g == getTokenGrant(token, tokenExpiration, now) IN
    IF g = "none"
    THEN /\ pc' = [pc EXCEPT ![c] = "apiWait"]
         /\ bearer' = [bearer EXCEPT ![c] = token]
         /\ tokenReq' = [tokenReq EXCEPT ![c] = NoReq]
         /\ sent' = [sent EXCEPT ![c] = s + 1]
         /\ tokenSent' = [tokenSent EXCEPT ![c] = ts]
    ELSE /\ pc' = [pc EXCEPT ![c] = "tokenWait"]
         /\ bearer' = [bearer EXCEPT ![c] = Undefined]
         /\ tokenReq' = [tokenReq EXCEPT ![c] = getTokenPayload(g, refreshToken)]
         /\ sent' = [sent EXCEPT ![c] = s]
         /\ tokenSent' = [tokenSent EXCEPT ![c] = ts + 1]

\* Caller c invokes operation o.
Start(c, o) ==
    /\ pc[c] \in {"idle", "done"}
    /\ op' = [op EXCEPT ![c] = o]
    /\ i' = [i EXCEPT ![c] = IF o = "getProxy" THEN 1 ELSE 0]
    /\ res' = [res EXCEPT ![c] = NoRes]
    /\ outcome' = [outcome EXCEPT ![c] = NoOutcome]
    /\ failure' = [failure EXCEPT ![c] = NoFailure]
    /\ sleeps' = [sleeps EXCEPT ![c] = 0]
    /\ BeginRequest(c, 0, 0)
    /\ UNCHANGED <<token, refreshToken, tokenExpiration, now, wakeAt, sleptAt,
                   stamp>>

\* A response r of R to the oauth/token request reaches caller c's getToken
\* (lines 383-398); on success __request goes on to send the API request
\* (line 84).
TokenResponse(c, R) ==
    /\ pc[c] = "tokenWait"
    /\ \E r \in R :
        IF ~r.ok
        THEN /\ outcome' = [outcome EXCEPT ![c] = getTokenFailure(r)]
             /\ failure' = [failure EXCEPT ![c] =
                            [from |-> "token", text |-> r.error_description]]
             /\ pc' = [pc EXCEPT ![c] = "done"]
             /\ UNCHANGED <<token, refreshToken, tokenExpiration, bearer, sent,
                            stamp>>
        ELSE /\ token' = getTokenStore(r, now)[1]
             /\ refreshToken' = getTokenStore(r, now)[2]
             /\ tokenExpiration' = getTokenStore(r, now)[3]
             /\ stamp' = <<r.access_token, r.refresh_token,
                           now + r.expires_in * MsPerSecond>>
             /\ bearer' = [bearer EXCEPT ![c] = r.access_token]
             /\ sent' = [sent EXCEPT ![c] = @ + 1]
             /\ pc' = [pc EXCEPT ![c] = "apiWait"]
             /\ UNCHANGED <<outcome, failure>>
    /\ tokenReq' = [tokenReq EXCEPT ![c] = NoReq]
    /\ UNCHANGED <<now, op, i, res, wakeAt, sleptAt, tokenSent, sleeps>>

\* The response r of the API request reaches caller c (line 84), and the
\* wrapper and the operation above it run to their return, throw or sleep.
ApiResponse(c) ==
    /\ pc[c] = "apiWait"
    /\ \E r \in ApiResponses :
        /\ failure' = [failure EXCEPT ![c] =
                       IF r.ok THEN @ ELSE [from |-> "api", text |-> r.error]]
        /\ IF op[c] # "getProxy"
           THEN /\ outcome' = [outcome EXCEPT ![c] = Finish(op[c], r)]
                /\ pc' = [pc EXCEPT ![c] = "done"]
                /\ UNCHANGED <<res, wakeAt, sleptAt>>
           ELSE LET w == get(r) IN
                IF w.kind = "throw"
                THEN /\ outcome' = [outcome EXCEPT ![c] = w]
                     /\ pc' = [pc EXCEPT ![c] = "done"]
                     /\ UNCHANGED <<res, wakeAt, sleptAt>>
                ELSE IF getProxyBreak(w.res)
                THEN /\ outcome' = [outcome EXCEPT ![c] = getProxyResult(w.res)]
                     /\ pc' = [pc EXCEPT ![c] = "done"]
                     /\ res' = [res EXCEPT ![c] = w.res]
                     /\ UNCHANGED <<wakeAt, sleptAt>>
                ELSE /\ pc' = [pc EXCEPT ![c] = "sleeping"]
                     /\ wakeAt' = [wakeAt EXCEPT ![c] = sleep(now)]
                     /\ sleptAt' = [sleptAt EXCEPT ![c] = now]
                     /\ res' = [res EXCEPT ![c] = w.res]
                     /\ UNCHANGED outcome
    /\ bearer' = [bearer EXCEPT ![c] = Undefined]
    /\ UNCHANGED <<token, refreshToken, tokenExpiration, now, op, i, tokenReq,
                   sent, tokenSent, sleeps, stamp>>

\* getProxy's sleep ends (line 334): i++, then the next iteration or the end
\* of the loop.
Wake(c) ==
    /\ pc[c] = "sleeping"
    /\ now >= wakeAt[c]
    /\ i' = [i EXCEPT ![c] = @ + 1]
    /\ IF getProxyLoop(i[c] + 1)
       THEN /\ BeginRequest(c, sent[c], tokenSent[c])
            /\ UNCHANGED outcome
       ELSE /\ outcome' = [outcome EXCEPT ![c] = getProxyResult(res[c])]
            /\ pc' = [pc EXCEPT ![c] = "done"]
            /\ UNCHANGED <<bearer, tokenReq, sent, tokenSent>>
    /\ wakeAt' = [wakeAt EXCEPT ![c] = 0]
    /\ sleptAt' = [sleptAt EXCEPT ![c] = 0]
    /\ sleeps' = [sleeps EXCEPT ![c] = @ + 1]
    /\ UNCHANGED <<token, refreshToken, tokenExpiration, now, op, res, failure,
                   stamp>>

\* Date.now() advances by d, up to max.
Tick(d, max) ==
    /\ now + d <= max
    /\ now' = now + d
    /\ UNCHANGED <<token, refreshToken, tokenExpiration, pc, op, i, res,
                   tokenReq, bearer, wakeAt, sleptAt, outcome, sent, tokenSent,
                   sleeps, failure, stamp>>

\* ------------------------------------------------------- specifications
\* Two callers share the client and invoke the request operations.
Next ==
    \/ \E c \in Callers : \E o \in SimpleOps : Start(c, o)
    \/ \E c \in Callers : TokenResponse(c, TokenResponses)
    \/ \E c \in Callers : ApiResponse(c)
    \/ Tick(RefreshWindow, MaxNow)

Spec == Init /\ [][Next]_vars

\* One caller polls for a proxy.
NextProxy ==
    \/ Start("c1", "getProxy")
    \/ TokenResponse("c1", ProxyTokenResponses)
    \/ ApiResponse("c1")
    \/ Wake("c1")
    \/ Tick(SleepDuration, MaxNowProxy)

SpecProxy == Init /\ [][NextProxy]_vars

\* ================================================================ claims
\* Caller c's step is one that runs getToken: the call of an operation, or
\* the start of a further iteration of getProxy.
GetTokenCalled(c) ==
    /\ pc[c] \in {"idle", "done", "sleeping"}
    /\ pc'[c] \in {"tokenWait", "apiWait"}

\* The cached token is held and expires more than 60 seconds from now.
InValidityWindow == Held(token) /\ tokenExpiration > now + RefreshWindow

ApiFailed(c) == pc[c] = "done" /\ failure[c].from = "api"

\* The operation's outcome is a RequestError thrown with the server's text.
ThrewRequestError(c) ==
    /\ outcome[c].kind = "throw"
    /\ outcome[c].error = "RequestError"
    /\ outcome[c].message = failure[c].text

\* A wrapper that throws on failure: RequestError with the server's text on a
\* non-success response, and no non-success response returned.
ThrowsOnFailure(c) ==
    /\ ApiFailed(c) => ThrewRequestError(c)
    /\ ~(outcome[c].kind = "return" /\ ~outcome[c].res.ok)

\* C5 as stated: get, post and delete each throw RequestError with the
\* server's message on a non-success response and never return one.
C5_Original ==
    \A c \in Callers :
        (pc[c] = "done" /\ op[c] \in {"get", "del", "post"}) => ThrowsOnFailure(c)

\* C5 amended: get and delete throw RequestError with the server's message on
\* a non-success response and never return one; post returns the response to
\* its caller whether it indicates success or not.
C5_GetDelThrowPostReturns ==
    \A c \in Callers :
        pc[c] = "done" =>
            /\ op[c] \in {"get", "del"} => ThrowsOnFailure(c)
            /\ (op[c] = "post" /\ ApiFailed(c)) =>
                  /\ outcome[c].kind = "return"
                  /\ outcome[c].shape = "res"
                  /\ ~outcome[c].res.ok
                  /\ outcome[c].res.error = failure[c].text

\* C5 witness: a get has thrown RequestError and a post has returned a
\* non-success response.
C5_Witness ==
    \E c, d \in Callers :
        /\ op[c] = "get" /\ ApiFailed(c) /\ ThrewRequestError(c)
        /\ op[d] = "post" /\ ApiFailed(d) /\ outcome[d].kind = "return"

\* C6: startDeviceSession and stopDeviceSession throw RequestError with the
\* server's message when the session request gets a non-success response, and
\* return nothing then.
C6_SessionErrors ==
    \A c \in Callers :
        (op[c] \in {"startDeviceSession", "stopDeviceSession"} /\ ApiFailed(c)) =>
            /\ ThrewRequestError(c)
            /\ outcome[c].site = op[c]
            /\ outcome[c].item = "" /\ outcome[c].res = NoRes

\* C6 witness: both operations have failed on a non-success response.
C6_Witness ==
    \E c, d \in Callers :
        /\ op[c] = "startDeviceSession" /\ ApiFailed(c)
        /\ op[d] = "stopDeviceSession" /\ ApiFailed(d)
        /\ failure[c].text # failure[d].text

\* C7: in every reachable state, however the callers' getToken calls
\* interleave, the cached token, refresh token and expiration are those of one
\* successful token response: the one processed last.
C7_AtomicReplace == cache = stamp

\* C7 witness: a token response was stored while another caller's password
\* request, sent before it, is still outstanding.
C7_Witness ==
    \E c \in Callers :
        /\ pc[c] = "tokenWait"
        /\ tokenReq[c].grant_type = "password"
        /\ Held(token)
        /\ now <= tokenExpiration

\* C8: a non-success response to a token request makes getToken throw
\* AuthError with the server's error description and leaves the cache as it
\* was; the cache changes only when a successful response is processed.
C8_FailureKeepsCache ==
    [][/\ \A c \in Callers :
            (pc[c] = "tokenWait" /\ failure'[c].from = "token") =>
                /\ pc'[c] = "done"
                /\ outcome'[c] =
                      Thrown("AuthError", "getToken", failure'[c].text)
                /\ cache' = cache
       /\ cache' # cache =>
            \E c \in Callers :
                /\ pc[c] = "tokenWait"
                /\ pc'[c] = "apiWait"
                /\ failure'[c] = NoFailure]_vars

\* C8 witness: a refresh has failed and the token it was to replace is still
\* cached.
C8_Witness ==
    \E c \in Callers :
        /\ pc[c] = "done"
        /\ failure[c].from = "token"
        /\ outcome[c].error = "AuthError"
        /\ outcome[c].message \in ServerErrors
        /\ Held(token)

\* C9: a caller that reaches getToken while no token is cached sends its own
\* password grant even when another caller's token request is outstanding,
\* which stays outstanding; and each successful response overwrites the
\* cache, so the cache holds the token of the response processed last.
C9_NoSingleFlight ==
    [][/\ \A c \in Callers : \A d \in Callers \ {c} :
            (GetTokenCalled(c) /\ ~Held(token) /\ pc[d] = "tokenWait") =>
                /\ pc'[c] = "tokenWait"
                /\ tokenReq'[c].grant_type = "password"
                /\ pc'[d] = "tokenWait"
                /\ tokenReq'[d] = tokenReq[d]
       /\ \A c \in Callers :
            (pc[c] = "tokenWait" /\ pc'[c] = "apiWait") =>
                /\ token' = bearer'[c]
                /\ cache' = stamp']_vars

\* C9 witness: two password grants are outstanding at once, no token cached.
C9_Witness ==
    /\ ~Held(token)
    /\ \A c \in Callers :
        pc[c] = "tokenWait" /\ tokenReq[c].grant_type = "password"

C10_Original ==
    \A c \in Callers :
        (op[c] = "getProxy" /\ pc[c] = "done" /\ failure[c] # NoFailure) =>
            /\ outcome[c].kind = "throw"
            /\ outcome[c].message = failure[c].text
            /\ sent[c] < maxRetries

\* C10 amended: a non-success response at attempt k, or a failed token
\* acquisition at attempt k, ends getProxy at once with that error: no sleep,
\* no further attempt, so that k queries have been issued (k-1 when it is the
\* token acquisition that failed): fewer than 30 unless the failing query is
\* the 30th.  Only a successful response with an empty list is slept on.
C10_FailureNotRetried ==
    [][\A c \in Callers :
        op'[c] = "getProxy" =>
            /\ (failure[c] = NoFailure /\ failure'[c] # NoFailure) =>
                  /\ pc'[c] = "done"
                  /\ outcome'[c] =
                        IF failure'[c].from = "token"
                        THEN Thrown("AuthError", "getToken", failure'[c].text)
                        ELSE Thrown("RequestError", "get", failure'[c].text)
                  /\ wakeAt'[c] = wakeAt[c] /\ sleeps'[c] = sleeps[c]
                  /\ sent'[c] = sent[c]
                  /\ sent'[c] = IF failure'[c].from = "token"
                                THEN i[c] - 1 ELSE i[c]
                  /\ i[c] <= maxRetries
                  /\ (i[c] < maxRetries \/ failure'[c].from = "token")
                        => sent'[c] < maxRetries
            /\ (pc[c] = "done" /\ pc'[c] = "done") => sent'[c] = sent[c]
            /\ pc'[c] = "sleeping" =>
                  /\ failure'[c] = NoFailure
                  /\ res'[c].ok /\ Len(res'[c].body) = 0]_vars

\* C10 witness: the 30th query got a non-success response after 29 sleeps.
C10_Witness ==
    \E c \in Callers :
        /\ op[c] = "getProxy"
        /\ pc[c] = "done"
        /\ failure[c].from = "api"
        /\ outcome[c].error = "RequestError"
        /\ sent[c] = maxRetries
        /\ sleeps[c] = maxRetries - 1

====
